---- MODULE Spec2Model ----
(***************************************************************************)
(* SmartSecure IoT Hub (iot_hub.py): the dashboard renderer.               *)
(*                                                                         *)
(* One render = one run of main(): the sidebar radio yields a section and  *)
(* main calls that section's handler.  Sensor values are fixed-point       *)
(* integers: a value v of the program is the integer v * Scale, a raw      *)
(* sample of random.uniform is an integer in units of 1/(Scale*Fine).      *)
(* Strings are written without their emoji prefix.                         *)
(***************************************************************************)
EXTENDS Integers, Sequences, FiniteSets, TLC

\* ---------------------------------------------------------------- bounds
\* raw samples are taken within MaxOffset raw units of each sample point
MaxOffset == 2
\* longest text handed to typewriter_effect
MaxTextLen == 3
\* most (box, label) pairs an external detection model reports
MaxBoxes == 2

\* ------------------------------------------------------ program constants
\* round(x, 2): two decimals
Scale == 100
\* raw units per hundredth (granularity of the modelled uniform sample)
Fine == 10

TempMin == 20
TempMax == 75
HumidityMin == 30
HumidityMax == 90
GasMin == 100
GasMax == 900
VibrationMin == 0
VibrationMax == 5
SmokeMin == 0
SmokeMax == 100

TempThreshold == 50
GasThreshold == 600
SmokeThreshold == 60
VibrationThreshold == 3

ImageWidth == 640
ImageHeight == 360

HighTemperature == "High Temperature"
GasLeakDetected == "Gas Leak Detected"
SmokeAlert == "Smoke Alert"
VibrationAlert == "Vibration Alert"
Separator == " | "

Overview == "Overview"
SensorDashboardSection == "Sensor Dashboard"
AISecurityVision == "AI Security Vision"
CADVisuals == "CAD Visuals"

\* options of st.sidebar.radio
Sections == {Overview, SensorDashboardSection, AISecurityVision, CADVisuals}

\* the four section handlers
Handlers == {"overview_page", "sensor_dashboard", "ai_security_vision", "cad_visuals"}

\* keys of the dict returned by generate_sensor_data
Keys == {"Temperature", "Humidity", "GasLevel", "Vibration", "SmokeLevel"}

\* characters of the texts handed to typewriter_effect
Chars == {"a", "b"}

VARIABLES
    pc,           \* "init": no render yet, "typing": inside typewriter_effect, "done": render complete
    section,      \* value returned by st.sidebar.radio in the current render
    ran,          \* handler -> number of times main called it in the current render
    page,         \* elements written to the page in the current render, in order
    data,         \* <<>> or <<reading>>: local data of sensor_dashboard
    alerts,       \* local alerts of sensor_dashboard
    text,         \* argument of typewriter_effect
    output,       \* local output of typewriter_effect
    typing_area,  \* content of the st.empty() placeholder
    updates,      \* number of typing_area.markdown calls in the current render
    image,        \* <<>> or <<img>>: image handed to st.image
    detected,     \* (box, label) pairs an external detection model reports in the current render
    memo          \* history: <<>> or <<[data, alerts, earlier]>>, one remembered sensor render

vars == <<pc, section, ran, page, data, alerts, text, output, typing_area,
          updates, image, detected, memo>>

\* ---------------------------------------------------------------- helpers
El(kind, txt) == [kind |-> kind, text |-> txt]

\* round(x, 2) of a raw sample: nearest hundredth; a raw value half way
\* stands for floats on either side of the tie, so both neighbours are possible
Round2(raw) ==
    LET q == raw \div Fine
        r == raw % Fine
    IN  IF 2 * r < Fine THEN {q}
        ELSE IF 2 * r > Fine THEN {q + 1}
        ELSE {q, q + 1}

\* raw results of random.uniform(lo, hi) kept by the model: those within
\* off raw units of one of the sample points (given in hundredths)
Uniform(lo, hi, points, off) ==
    {raw \in {p * Fine + o : p \in points, o \in (0 - off)..off} :
        lo * Scale * Fine <= raw /\ raw <= hi * Scale * Fine}

\* round(random.uniform(lo, hi), 2)
RoundedUniform(lo, hi, points, off) ==
    UNION {Round2(raw) : raw \in Uniform(lo, hi, points, off)}

\* mutant of generate_sensor_data: the temperature is drawn with the arguments of the gas level
generate_sensor_data_gas(pts, off) ==
    {[Temperature |-> t, Humidity |-> h, GasLevel |-> g, Vibration |-> v, SmokeLevel |-> s] :
        t \in RoundedUniform(GasMin, GasMax, pts.GasLevel, off),
        h \in RoundedUniform(HumidityMin, HumidityMax, pts.Humidity, off),
        g \in RoundedUniform(GasMin, GasMax, pts.GasLevel, off),
        v \in RoundedUniform(VibrationMin, VibrationMax, pts.Vibration, off),
        s \in RoundedUniform(SmokeMin, SmokeMax, pts.SmokeLevel, off)}

generate_sensor_data(pts, off) ==
    {[Temperature |-> t, Humidity |-> h, GasLevel |-> g, Vibration |-> v, SmokeLevel |-> s] :
        t \in RoundedUniform(TempMin, TempMax, pts.Temperature, off),
        h \in RoundedUniform(HumidityMin, HumidityMax, pts.Humidity, off),
        g \in RoundedUniform(GasMin, GasMax, pts.GasLevel, off),
        v \in RoundedUniform(VibrationMin, VibrationMax, pts.Vibration, off),
        s \in RoundedUniform(SmokeMin, SmokeMax, pts.SmokeLevel, off)}

\* sample points: the ends of each range, each threshold and the hundredth above it
BoundaryPoints ==
    [Temperature |-> {TempMin * Scale, TempThreshold * Scale, TempThreshold * Scale + 1, TempMax * Scale},
     Humidity    |-> {HumidityMin * Scale, HumidityMax * Scale},
     GasLevel    |-> {GasMin * Scale, GasThreshold * Scale, GasThreshold * Scale + 1, GasMax * Scale},
     Vibration   |-> {VibrationMin * Scale, VibrationThreshold * Scale, VibrationThreshold * Scale + 1, VibrationMax * Scale},
     SmokeLevel  |-> {SmokeMin * Scale, SmokeThreshold * Scale, SmokeThreshold * Scale + 1, SmokeMax * Scale}]

\* sample points: temperature 55, gas 200, vibration 1, smoke 10
ScenarioPoints ==
    [Temperature |-> {55 * Scale},
     Humidity    |-> {HumidityMin * Scale, HumidityMax * Scale},
     GasLevel    |-> {200 * Scale},
     Vibration   |-> {1 * Scale},
     SmokeLevel  |-> {10 * Scale}]

\* sample points: the ends of each range
EndPoints ==
    [Temperature |-> {TempMin * Scale, TempMax * Scale},
     Humidity    |-> {HumidityMin * Scale, HumidityMax * Scale},
     GasLevel    |-> {GasMin * Scale, GasMax * Scale},
     Vibration   |-> {VibrationMin * Scale, VibrationMax * Scale},
     SmokeLevel  |-> {SmokeMin * Scale, SmokeMax * Scale}]

\* the readings a render draws from
Readings == generate_sensor_data(BoundaryPoints, MaxOffset) \cup generate_sensor_data(ScenarioPoints, MaxOffset)

\* the readings a render draws from when an earlier render is remembered
PureReadings == generate_sensor_data(EndPoints, MaxOffset)

\* mutant of NewAlerts: the list of the previous render is reused
CarriedAlerts == alerts

\* alerts = []
NewAlerts == <<>>

\* mutant of AlertEvaluation: the temperature check is >= instead of >
AlertEvaluationGE(d) ==
    LET a0 == NewAlerts
        a1 == IF d.Temperature >= TempThreshold * Scale THEN Append(a0, HighTemperature) ELSE a0
        a2 == IF d.GasLevel > GasThreshold * Scale THEN Append(a1, GasLeakDetected) ELSE a1
        a3 == IF d.SmokeLevel > SmokeThreshold * Scale THEN Append(a2, SmokeAlert) ELSE a2
        a4 == IF d.Vibration > VibrationThreshold * Scale THEN Append(a3, VibrationAlert) ELSE a3
    IN  a4

\* mutant of AlertEvaluation: the vibration check is made before the smoke check
AlertEvaluationVS(d) ==
    LET a0 == NewAlerts
        a1 == IF d.Temperature > TempThreshold * Scale THEN Append(a0, HighTemperature) ELSE a0
        a2 == IF d.GasLevel > GasThreshold * Scale THEN Append(a1, GasLeakDetected) ELSE a1
        a3 == IF d.Vibration > VibrationThreshold * Scale THEN Append(a2, VibrationAlert) ELSE a2
        a4 == IF d.SmokeLevel > SmokeThreshold * Scale THEN Append(a3, SmokeAlert) ELSE a3
    IN  a4

\* mutant of AlertEvaluation: the vibration check is < instead of >
AlertEvaluationLT(d) ==
    LET a0 == NewAlerts
        a1 == IF d.Temperature > TempThreshold * Scale THEN Append(a0, HighTemperature) ELSE a0
        a2 == IF d.GasLevel > GasThreshold * Scale THEN Append(a1, GasLeakDetected) ELSE a1
        a3 == IF d.SmokeLevel > SmokeThreshold * Scale THEN Append(a2, SmokeAlert) ELSE a2
        a4 == IF d.Vibration < VibrationThreshold * Scale THEN Append(a3, VibrationAlert) ELSE a3
    IN  a4

\* the four threshold checks of sensor_dashboard, in the order of the code
AlertEvaluation(d) ==
    LET a0 == NewAlerts
        a1 == IF d.Temperature > TempThreshold * Scale THEN Append(a0, HighTemperature) ELSE a0
        a2 == IF d.GasLevel > GasThreshold * Scale THEN Append(a1, GasLeakDetected) ELSE a1
        a3 == IF d.SmokeLevel > SmokeThreshold * Scale THEN Append(a2, SmokeAlert) ELSE a2
        a4 == IF d.Vibration > VibrationThreshold * Scale THEN Append(a3, VibrationAlert) ELSE a3
    IN  a4

\* sep.join(seq): the pieces of the joined string, in order
RECURSIVE Join(_, _)
Join(seq, sep) ==
    IF Len(seq) = 0 THEN <<>>
    ELSE IF Len(seq) = 1 THEN <<seq[1]>>
    ELSE <<seq[1], sep>> \o Join(Tail(seq), sep)

\* mutant of StatusBanner: the error banner needs more than one alert
StatusBannerMany(al) ==
    IF Len(al) > 1 THEN El("error", Join(al, Separator))
    ELSE El("success", <<"All systems are stable.">>)

\* if alerts: st.error(...) else: st.success(...)
StatusBanner(al) ==
    IF al # <<>> THEN El("error", Join(al, Separator))
    ELSE El("success", <<"All systems are stable.">>)

\* Image.new("RGB", (640, 360), "white")
ImageNew == [size |-> <<ImageWidth, ImageHeight>>, color |-> "white", shapes |-> <<>>]

DrawRectangle(img, box, outline) ==
    [img EXCEPT !.shapes = Append(@, [kind |-> "rectangle", at |-> box, text |-> "", color |-> outline])]

DrawText(img, pos, txt, fill) ==
    [img EXCEPT !.shapes = Append(@, [kind |-> "text", at |-> pos, text |-> txt, color |-> fill])]

\* mutant of draw_fake_ai_detection: the label is not drawn
draw_without_label == DrawRectangle(ImageNew, <<50, 70, 250, 270>>, "red")

\* mutant of draw_fake_ai_detection: the canvas is returned as created
draw_nothing == ImageNew

draw_fake_ai_detection ==
    DrawText(DrawRectangle(ImageNew, <<50, 70, 250, 270>>, "red"), <<60, 60>>, "Intruder", "red")

\* mutant of Dispatch: the last two branches call each other's handler
DispatchSwapped(s) ==
    IF s = Overview THEN "overview_page"
    ELSE IF s = SensorDashboardSection THEN "sensor_dashboard"
    ELSE IF s = AISecurityVision THEN "cad_visuals"
    ELSE IF s = CADVisuals THEN "ai_security_vision"
    ELSE "none"

\* the if/elif chain of main
Dispatch(s) ==
    IF s = Overview THEN "overview_page"
    ELSE IF s = SensorDashboardSection THEN "sensor_dashboard"
    ELSE IF s = AISecurityVision THEN "ai_security_vision"
    ELSE IF s = CADVisuals THEN "cad_visuals"
    ELSE "none"

\* the remembered render, if any, is now an earlier one
Earlier(m) == IF m = <<>> THEN m ELSE <<[m[1] EXCEPT !.earlier = TRUE]>>

\* a fresh script run: nothing called yet, no locals
NoneRan == [h \in Handlers |-> 0]

Texts == UNION {[1..n -> Chars] : n \in 0..MaxTextLen}

Boxes == {<<50, 70, 250, 270>>, <<0, 0, 10, 10>>}
Labels == {"Intruder", "person"}
DetectionResults == UNION {[1..n -> Boxes \X Labels] : n \in 0..MaxBoxes}

\* ------------------------------------------------------------------- Init
Init ==
    /\ pc = "init"
    /\ section = Overview
    /\ ran = NoneRan
    /\ page = <<>>
    /\ data = <<>>
    /\ alerts = <<>>
    /\ text = <<>>
    /\ output = <<>>
    /\ typing_area = <<>>
    /\ updates = 0
    /\ image = <<>>
    /\ detected = <<>>
    /\ memo = <<>>

\* ---------------------------------------------------------------- actions
\* main() with the radio on Overview: overview_page up to the call of typewriter_effect
MainOverview ==
    /\ pc \in {"init", "done"}
    /\ \E s \in Sections :
        /\ Dispatch(s) = "overview_page"
        /\ section' = s
    /\ ran' = [NoneRan EXCEPT !["overview_page"] = @ + 1]
    /\ page' = <<El("markdown", <<"SmartSecure IoT Hub">>)>>
    /\ text' \in Texts
    /\ output' = <<>>
    /\ typing_area' = <<>>
    /\ updates' = 0
    /\ data' = <<>>
    /\ alerts' = <<>>
    /\ image' = <<>>
    /\ detected' = <<>>
    /\ pc' = "typing"
    /\ memo' = Earlier(memo)

\* mutant of TypewriterStep: the placeholder shows char instead of output
TypewriterStepChar ==
    /\ pc = "typing"
    /\ Len(output) < Len(text)
    /\ output' = Append(output, text[Len(output) + 1])
    /\ typing_area' = <<text[Len(output) + 1]>>
    /\ updates' = updates + 1
    /\ UNCHANGED <<pc, section, ran, page, data, alerts, text, image, detected, memo>>

\* one iteration of "for char in text"
TypewriterStep ==
    /\ pc = "typing"
    /\ Len(output) < Len(text)
    /\ output' = Append(output, text[Len(output) + 1])
    /\ typing_area' = output'
    /\ updates' = updates + 1
    /\ UNCHANGED <<pc, section, ran, page, data, alerts, text, image, detected, memo>>

\* the loop is exhausted: the rest of overview_page
OverviewRest ==
    /\ pc = "typing"
    /\ Len(output) = Len(text)
    /\ page' = page \o <<El("markdown", <<"---">>),
                         El("markdown", <<"Features">>),
                         El("markdown", <<"Technology Stack">>),
                         El("markdown", <<"Created By">>),
                         El("success", <<"Let's explore the system using the sidebar menu">>)>>
    /\ pc' = "done"
    /\ UNCHANGED <<section, ran, data, alerts, text, output, typing_area, updates,
                   image, detected, memo>>

\* main() with the radio on Sensor Dashboard: the whole of sensor_dashboard
MainSensorDashboard(readings, remember) ==
    /\ pc \in {"init", "done"}
    /\ \E s \in Sections :
        /\ Dispatch(s) = "sensor_dashboard"
        /\ section' = s
    /\ ran' = [NoneRan EXCEPT !["sensor_dashboard"] = @ + 1]
    /\ \E d \in readings :
        /\ data' = <<d>>
        /\ alerts' = AlertEvaluation(d)
        /\ page' = <<El("markdown", <<"IoT Sensor Dashboard">>),
                     El("dataframe", <<>>),
                     El("plotly_chart", <<>>),
                     StatusBanner(alerts')>>
        /\ memo' = IF remember THEN <<[data |-> d, alerts |-> alerts', earlier |-> FALSE]>>
                   ELSE Earlier(memo)
    /\ text' = <<>>
    /\ output' = <<>>
    /\ typing_area' = <<>>
    /\ updates' = 0
    /\ image' = <<>>
    /\ detected' = <<>>
    /\ pc' = "done"

\* main() with the radio on AI Security Vision: the whole of ai_security_vision
MainAISecurityVision ==
    /\ pc \in {"init", "done"}
    /\ \E s \in Sections :
        /\ Dispatch(s) = "ai_security_vision"
        /\ section' = s
    /\ ran' = [NoneRan EXCEPT !["ai_security_vision"] = @ + 1]
    /\ detected' \in DetectionResults
    /\ \E button \in BOOLEAN :
        IF button
        THEN /\ image' = <<draw_fake_ai_detection>>
             /\ page' = <<El("markdown", <<"AI Security Vision (Simulated)">>),
                          El("write", <<>>),
                          El("image", <<"Detection Result">>),
                          El("success", <<"Mock AI Detection Complete">>)>>
        ELSE /\ image' = <<>>
             /\ page' = <<El("markdown", <<"AI Security Vision (Simulated)">>),
                          El("write", <<>>)>>
    /\ text' = <<>>
    /\ output' = <<>>
    /\ typing_area' = <<>>
    /\ updates' = 0
    /\ data' = <<>>
    /\ alerts' = <<>>
    /\ pc' = "done"
    /\ memo' = Earlier(memo)

\* main() with the radio on CAD Visuals: the whole of cad_visuals
MainCADVisuals ==
    /\ pc \in {"init", "done"}
    /\ \E s \in Sections :
        /\ Dispatch(s) = "cad_visuals"
        /\ section' = s
    /\ ran' = [NoneRan EXCEPT !["cad_visuals"] = @ + 1]
    /\ page' = <<El("markdown", <<"CAD Visualization">>),
                 El("write", <<>>),
                 El("code", <<>>),
                 El("markdown", <<"Note">>)>>
    /\ text' = <<>>
    /\ output' = <<>>
    /\ typing_area' = <<>>
    /\ updates' = 0
    /\ data' = <<>>
    /\ alerts' = <<>>
    /\ image' = <<>>
    /\ detected' = <<>>
    /\ pc' = "done"
    /\ memo' = Earlier(memo)

Next ==
    \/ MainOverview
    \/ TypewriterStep
    \/ OverviewRest
    \/ MainSensorDashboard(Readings, FALSE)
    \/ MainAISecurityVision
    \/ MainCADVisuals

Spec == Init /\ [][Next]_vars

\* the steps of a started render are always taken
FairSpec == Spec /\ WF_vars(TypewriterStep) /\ WF_vars(OverviewRest)

\* renders that may remember one earlier sensor render in memo
PureNext ==
    \/ MainOverview
    \/ TypewriterStep
    \/ OverviewRest
    \/ \E remember \in BOOLEAN : MainSensorDashboard(PureReadings, remember)
    \/ MainAISecurityVision
    \/ MainCADVisuals

PureSpec == Init /\ [][PureNext]_vars

TypeOK ==
    /\ pc \in {"init", "typing", "done"}
    /\ section \in Sections
    /\ ran \in [Handlers -> 0..1]
    /\ Len(data) <= 1
    /\ updates \in 0..Len(text)

\* ----------------------------------------------------------------- claims
Range(seq) == {seq[i] : i \in 1..Len(seq)}

AllAlerts == {HighTemperature, GasLeakDetected, SmokeAlert, VibrationAlert}

\* a sensor_dashboard render is complete
SensorRendered == pc = "done" /\ data # <<>>

\* C1: each alert is in the AlertSet iff its own reading strictly exceeds its
\* threshold (temperature > 50, gas > 600, vibration > 3, smoke > the smoke
\* threshold of this variant), whatever the other readings are; no alert is
\* listed twice; temperature 55, gas 200, vibration 1, smoke 10 yields exactly
\* the one High Temperature alert.
C1_AlertsIndependent ==
    SensorRendered =>
        LET d == data[1] IN
        /\ (HighTemperature \in Range(alerts)) <=> (d.Temperature > 50 * Scale)
        /\ (GasLeakDetected \in Range(alerts)) <=> (d.GasLevel > 600 * Scale)
        /\ (VibrationAlert \in Range(alerts)) <=> (d.Vibration > 3 * Scale)
        /\ (SmokeAlert \in Range(alerts)) <=> (d.SmokeLevel > SmokeThreshold * Scale)
        /\ Range(alerts) \subseteq AllAlerts
        /\ Cardinality(Range(alerts)) = Len(alerts)
        /\ (d.Temperature = 55 * Scale /\ d.GasLevel = 200 * Scale
              /\ d.Vibration = 1 * Scale /\ d.SmokeLevel = 10 * Scale)
           => alerts = <<HighTemperature>>

\* the reading temperature 55, gas 200, vibration 1, smoke 10 was rendered
C1_Witness ==
    /\ SensorRendered
    /\ data[1].Temperature = 55 * Scale /\ data[1].GasLevel = 200 * Scale
    /\ data[1].Vibration = 1 * Scale /\ data[1].SmokeLevel = 10 * Scale
    /\ alerts = <<HighTemperature>>

AllExceeded ==
    /\ data # <<>>
    /\ data[1].Temperature > 50 * Scale
    /\ data[1].GasLevel > 600 * Scale
    /\ data[1].Vibration > 3 * Scale
    /\ data[1].SmokeLevel > SmokeThreshold * Scale

\* position of an alert in an order
Rank(order, a) == CHOOSE i \in 1..Len(order) : order[i] = a

\* the alerts present appear in the relative order of order
InOrder(order) ==
    \A i, j \in 1..Len(alerts) : i < j => Rank(order, alerts[i]) < Rank(order, alerts[j])

SpecOrder == <<HighTemperature, GasLeakDetected, VibrationAlert, SmokeAlert>>
CodeOrder == <<HighTemperature, GasLeakDetected, SmokeAlert, VibrationAlert>>

\* C2 as stated: with all four thresholds exceeded the AlertSet is High
\* Temperature, Gas Leak, Vibration, Smoke in that order, and the alerts of any
\* AlertSet appear in that relative order.
C2_SpecOrder ==
    SensorRendered =>
        /\ AllExceeded => alerts = SpecOrder
        /\ InOrder(SpecOrder)

\* C2 amended: with all four thresholds exceeded the AlertSet is High
\* Temperature, Gas Leak, Smoke, Vibration in that order (the order of the
\* checks in sensor_dashboard), and the alerts of any AlertSet appear in that
\* relative order.
C2_CodeOrder ==
    SensorRendered =>
        /\ AllExceeded => alerts = CodeOrder
        /\ InOrder(CodeOrder)

C2_Witness == SensorRendered /\ AllExceeded /\ Len(alerts) = 4

\* C3: every value of a reading returned by generate_sensor_data lies in the
\* range of its key after the rounding to two decimals (temperature [20,75],
\* humidity [30,90], gas level [100,900], vibration [0,5], smoke level [0,100]),
\* and the reading has exactly the five keys.
C3_ReadingInRange ==
    data # <<>> =>
        LET d == data[1] IN
        /\ DOMAIN d = Keys
        /\ 20 * Scale <= d.Temperature /\ d.Temperature <= 75 * Scale
        /\ 30 * Scale <= d.Humidity /\ d.Humidity <= 90 * Scale
        /\ 100 * Scale <= d.GasLevel /\ d.GasLevel <= 900 * Scale
        /\ 0 * Scale <= d.Vibration /\ d.Vibration <= 5 * Scale
        /\ 0 * Scale <= d.SmokeLevel /\ d.SmokeLevel <= 100 * Scale

\* a reading with values at both ends of their ranges was returned
C3_Witness ==
    /\ data # <<>>
    /\ data[1].Temperature = 75 * Scale
    /\ data[1].Humidity = 30 * Scale
    /\ data[1].GasLevel = 900 * Scale
    /\ data[1].SmokeLevel = 0

MinReading ==
    [Temperature |-> 20 * Scale, Humidity |-> 30 * Scale, GasLevel |-> 100 * Scale,
     Vibration |-> 0, SmokeLevel |-> 0]

\* C4: for the reading with every value at the minimum of its range
\* (20, 30, 100, 0, 0) the AlertSet is empty.
C4_MinimumNoAlerts ==
    (SensorRendered /\ data[1] = MinReading) => alerts = <<>>

C4_Witness == SensorRendered /\ data[1] = MinReading /\ ran["sensor_dashboard"] = 1

\* C5: two renders with equal readings produce equal AlertSets, whatever was
\* rendered in between and before: the alerts of a remembered earlier render
\* equal those of the current render when the readings are equal.
C5_PureEvaluation ==
    (SensorRendered /\ memo # <<>> /\ memo[1].earlier /\ memo[1].data = data[1])
        => memo[1].alerts = alerts

\* a later render drew the reading of a remembered earlier render, with alerts
C5_Witness ==
    /\ SensorRendered /\ memo # <<>> /\ memo[1].earlier /\ memo[1].data = data[1]
    /\ alerts # <<>>

\* the handler of each section
HandlerOf(s) ==
    CASE s = "Overview" -> "overview_page"
      [] s = "Sensor Dashboard" -> "sensor_dashboard"
      [] s = "AI Security Vision" -> "ai_security_vision"
      [] s = "CAD Visuals" -> "cad_visuals"

\* C6: in every render main runs exactly one of the four handlers, the one of
\* the section selected in the sidebar, and runs it exactly once.
C6_OneHandler ==
    pc # "init" =>
        \A h \in Handlers : ran[h] = IF h = HandlerOf(section) THEN 1 ELSE 0

C6_Witness == pc = "done" /\ section = "CAD Visuals" /\ ran["cad_visuals"] = 1

Rectangles(img) == {i \in 1..Len(img.shapes) : img.shapes[i].kind = "rectangle"}
TextLabels(img) == {i \in 1..Len(img.shapes) : img.shapes[i].kind = "text"}

\* C7 as stated: the image shown has one rectangle and one label per (box,
\* label) pair returned by the detection model.
C7_OnePerDetection ==
    image # <<>> =>
        /\ Cardinality(Rectangles(image[1])) = Len(detected)
        /\ Cardinality(TextLabels(image[1])) = Len(detected)

\* C7 amended: the image returned by draw_fake_ai_detection is a new white
\* 640x360 canvas with exactly one rectangle and exactly one text label
\* ("Intruder"), whatever a detection model reports.
C7_OneFakeDetection ==
    image # <<>> =>
        /\ image[1].size = <<640, 360>> /\ image[1].color = "white"
        /\ Cardinality(Rectangles(image[1])) = 1
        /\ Cardinality(TextLabels(image[1])) = 1
        /\ \A i \in TextLabels(image[1]) : image[1].shapes[i].text = "Intruder"

C7_Witness == image # <<>> /\ Len(detected) = 2 /\ Len(image[1].shapes) = 2

\* C8 as stated: when the detection returns zero boxes the output image is
\* identical to the image the overlay started from.
C8_ZeroBoxesIdentical ==
    (image # <<>> /\ detected = <<>>) => image[1] = ImageNew

\* C8 amended: the output image is never identical to the canvas the overlay
\* started from, also when a detection returns zero boxes: it differs from it
\* by the drawn shapes only.
C8_AlwaysDrawn ==
    image # <<>> =>
        /\ image[1] # ImageNew
        /\ [image[1] EXCEPT !.shapes = <<>>] = ImageNew

C8_Witness == image # <<>> /\ detected = <<>> /\ pc = "done"

Banners == {i \in 1..Len(page) : page[i].kind \in {"error", "success"}}

\* C9: a sensor_dashboard render shows exactly one status banner: the error
\* banner, listing all alerts joined by " | ", iff at least one threshold is
\* exceeded, and the "All systems are stable" success banner iff the AlertSet
\* is empty.
C9_OneBanner ==
    SensorRendered =>
        LET d == data[1]
            exceeded == \/ d.Temperature > 50 * Scale
                        \/ d.GasLevel > 600 * Scale
                        \/ d.Vibration > 3 * Scale
                        \/ d.SmokeLevel > SmokeThreshold * Scale
        IN  /\ Cardinality(Banners) = 1
            /\ \A i \in Banners :
                /\ page[i].kind = "error" <=> exceeded
                /\ page[i].kind = "success" <=> alerts = <<>>
                /\ page[i].kind = "success" => page[i].text = <<"All systems are stable.">>
                /\ page[i].kind = "error" =>
                    /\ Len(page[i].text) = 2 * Len(alerts) - 1
                    /\ \A k \in 1..Len(alerts) : page[i].text[2 * k - 1] = alerts[k]
                    /\ \A k \in 1..(Len(alerts) - 1) : page[i].text[2 * k] = " | "

\* an error banner listing two alerts was shown
C9_Witness ==
    /\ SensorRendered /\ Len(alerts) = 2
    /\ \E i \in Banners : page[i].kind = "error" /\ Len(page[i].text) = 3

\* overview_page is running or has run in this render
InOverview == pc # "init" /\ section = "Overview"

C10_Prefixes ==
    InOverview =>
        /\ updates <= Len(text)
        /\ typing_area = SubSeq(text, 1, updates)
        /\ Len(page) > 1 => (updates = Len(text) /\ typing_area = text)
        /\ pc = "done" => (updates = Len(text) /\ Len(page) = 6)

C10_OneCharPerUpdate ==
    (updates' # updates /\ updates' # 0) =>
        /\ updates' = updates + 1
        /\ typing_area' = Append(typing_area, text[updates'])

\* C10: the typewriter effect terminates after exactly len(text) display
\* updates; the k-th update shows the prefix of length k, each displayed
\* string extends the previous one by one character, the last update shows
\* the whole text, and the rest of the page is rendered only after it.
C10_Typewriter ==
    /\ []C10_Prefixes
    /\ [][C10_OneCharPerUpdate]_vars
    /\ (pc = "typing") ~> (pc = "done" /\ updates = Len(text))

C10_Witness ==
    /\ pc = "done" /\ section = "Overview"
    /\ Len(text) >= 2 /\ updates = Len(text) /\ typing_area = text /\ Len(page) = 6
====
